---- MODULE Spec2Model ----
(***************************************************************************)
(* Alert processing pipeline of kube-rca/backend: webhook intake, incident *)
(* correlation, alert persistence, flapping detection, resolved-duplicate  *)
(* guard, Slack fanout with thread correlation and analysis scheduling.    *)
(*                                                                         *)
(* Each webhook handler is a process whose position (pc) advances one      *)
(* repository or Slack call at a time, so that concurrent handlers         *)
(* interleave at every I/O suspension point.  Timestamps are small         *)
(* naturals (minutes); Null stands for SQL NULL / the zero time, 0 for a   *)
(* NULL incident_id and for the empty thread_ts.                           *)
(***************************************************************************)
EXTENDS Integers, Sequences, FiniteSets, TLC

\* ------------------------------------------------------------------ bounds
MaxCalls == 2        \* webhook requests accepted in one behaviour
MaxBatch == 2        \* alerts per webhook request
MaxTime == 1        \* largest timestamp carried by a webhook / read from the clock
MaxRequests == 3   \* webhook and operator requests served in one behaviour
MaxTokens == 3     \* rows the refresh_tokens table holds in one behaviour

Handlers     == {"h1", "h2"}
Fingerprints == {"a", "b", "c"}
Severities   == {"info", "warning", "critical"}
\* The fingerprint is a hash of the label set, severity included: every
\* webhook of one fingerprint carries the same severity label.
SeverityOf   == [f \in Fingerprints |->
                   CASE f = "a" -> "warning" [] f = "b" -> "critical"
                     [] OTHER -> "info"]
Statuses     == {"firing", "resolved"}
Times        == 0 .. MaxTime
Null         == -1

\* ------------------------------------------------------- program constants
DetectionWindowMinutes == 30
CycleThreshold         == 3
ClearanceWindowMinutes == 30
FlappingEnabled        == TRUE

VARIABLES
    incidents,      \* incidents table: sequence of rows, incident_id = index
    alerts,         \* alerts table: function from the stored alert_ids to rows
    transitions,    \* alert_state_transitions: append-only sequence of rows
    threadMap,      \* SlackClient.threadMap: fingerprint -> thread_ts (0 = absent)
    posts,          \* number of messages Slack accepted; the n-th has ts = n
    tasks,          \* number of analysis goroutines launched
    clearances,     \* flapping clearance goroutines launched
    now,            \* last value read from the wall clock
    flappingConfig, \* AlertService.flappingConfig
    handlers,       \* per webhook handler: position and locals
    calls,          \* webhook requests accepted so far
    ops,            \* operator requests served so far
    last,           \* what the previous completed webhook call left behind
    summaryTasks,   \* requestIncidentSummary goroutines, in launch order
    analyses,       \* incidents.title/analysis_summary/analysis_detail written
    embeddings,     \* embeddings table: sequence of rows
    embedCalls,     \* number of EmbeddingClient.EmbedText calls made
    created,        \* the latest EmbeddingService.CreateEmbedding call made directly
    analysisTasks,  \* AgentService.RequestAnalysis goroutines, in launch order
    alertAnalyses,  \* alerts.analysis_summary/detail: the task whose answer is stored
    replies,        \* analysis messages Slack accepted, with their thread
    refreshTokens,  \* refresh_tokens table: sequence of rows, id = index
    refreshCalls    \* AuthService.Refresh calls in flight, per caller

vars == <<incidents, alerts, transitions, threadMap, posts, tasks, clearances,
          now, flappingConfig, handlers, calls, ops, last,
          summaryTasks, analyses, embeddings, embedCalls, created,
          analysisTasks, alertAnalyses, replies,
          refreshTokens, refreshCalls>>

rcaVars == <<summaryTasks, analyses, embeddings, embedCalls, created>>

agentVars == <<analysisTasks, alertAnalyses, replies>>

authVars == <<refreshTokens, refreshCalls>>

dbVars == <<incidents, alerts, transitions>>

\* ------------------------------------------------------------------ inputs
\* model.Alert as far as the pipeline reads it.  EndsAt is the zero time on
\* firing alerts.
AlertInputs ==
    { [fingerprint |-> f, status |-> "firing", severity |-> SeverityOf[f],
       startsAt |-> t, endsAt |-> Null] :
        f \in Fingerprints, t \in Times }
    \cup
    { [fingerprint |-> f, status |-> "resolved", severity |-> SeverityOf[f],
       startsAt |-> t[1], endsAt |-> t[2]] :
        f \in Fingerprints,
        t \in { p \in Times \X Times : p[1] <= p[2] } }

NoAlert == [fingerprint |-> "", status |-> "", severity |-> "",
            startsAt |-> Null, endsAt |-> Null]

\* what the handler did for the alert it is processing (observation only)
NoPost == [kind |-> "", fingerprint |-> "", status |-> "", thread |-> 0, ts |-> 0]

NoTask == [fingerprint |-> "", status |-> "", threadTS |-> 0, incidentID |-> 0]

NoFlags == [corrFail |-> FALSE, saveFail |-> FALSE, resFail |-> FALSE,
            dup |-> FALSE, suppressed |-> FALSE, chatTried |-> FALSE,
            chatOk |-> FALSE, flapPost |-> FALSE, launched |-> FALSE,
            recorded |-> FALSE, post |-> NoPost, task |-> NoTask]

\* client.IncidentSummaryResponse: what the agent may answer
NoResponse == [title |-> "", summary |-> "", detail |-> ""]

Responses ==
    { [title |-> "t", summary |-> x, detail |-> "d"] : x \in {"", "s"} }

\* goroutines serving POST /auth/refresh
AuthCallers == {"r1", "r2"}

\* a Refresh call that has not started
IdleRefresh == [pc |-> "idle", token |-> 0, record |-> 0, result |-> "",
                issued |-> 0]

\* no direct CreateEmbedding call yet
NoCreated ==
    [pc |-> "none", incidentID |-> 0, summary |-> "", id |-> 0, model |-> "",
     err |-> FALSE, calls0 |-> 0, rows0 |-> 0]

\* main wires an EmbeddingService into the RcaService
EmbeddingEnabled == TRUE

\* alerts row of a fingerprint the table does not hold
NoRow == [exists |-> FALSE, incident_id |-> 0, severity |-> "", status |-> "",
          fired_at |-> Null, resolved_at |-> Null, thread_ts |-> 0,
          is_flapping |-> FALSE, flap_cycle_count |-> 0,
          flap_window_start |-> Null]

EmptyAlerts == [f \in Fingerprints |-> NoRow]

NoSnapshot == [alerts |-> EmptyAlerts, incidents |-> <<>>, transitions |-> <<>>,
               posts |-> 0, tasks |-> 0,
               threadMap |-> [f \in Fingerprints |-> 0]]

Snapshot == [alerts |-> alerts, incidents |-> incidents,
             transitions |-> transitions, posts |-> posts,
             tasks |-> tasks, threadMap |-> threadMap]

IdleHandler ==
    [pc |-> "idle", remaining |-> 0, alert |-> NoAlert, incidentID |-> 0,
     found |-> 0, isFlapping |-> FALSE, isNewFlapping |-> FALSE,
     currentStatus |-> "", cycleCount |-> 0, windowStart |-> Null,
     threadTS |-> 0, sent |-> 0, failed |-> 0,
     sent0 |-> 0, failed0 |-> 0, n |-> 0, taken |-> 0, skipped |-> 0,
     flags |-> NoFlags, pre |-> NoSnapshot]

\* the webhook of the previous completed call and what the call did
NoLast == [n |-> 0, alert |-> NoAlert]

\* config.Load: the flapping settings, from the environment or the defaults
DefaultFlappingConfig ==
    [DetectionWindowMinutes |-> DetectionWindowMinutes,
     CycleThreshold |-> CycleThreshold,
     ClearanceWindowMinutes |-> ClearanceWindowMinutes]

\* FLAP_CYCLE_THRESHOLD as deployments set it: the default, or 1 (the first
\* completed cycle already counts as flapping)
CycleThresholds == {1, CycleThreshold}

InitWith(config) ==
    /\ incidents = <<>>
    /\ alerts = EmptyAlerts
    /\ transitions = <<>>
    /\ threadMap = [f \in Fingerprints |-> 0]
    /\ posts = 0
    /\ tasks = 0
    /\ clearances = {}
    /\ now = 0
    /\ flappingConfig = config
    /\ handlers = [h \in Handlers |-> IdleHandler]
    /\ calls = 0
    /\ ops = 0
    /\ last = NoLast
    /\ summaryTasks = <<>>
    /\ analyses = {}
    /\ embeddings = <<>>
    /\ embedCalls = 0
    /\ created = NoCreated
    /\ analysisTasks = <<>>
    /\ alertAnalyses = [f \in Fingerprints |-> 0]
    /\ replies = {}
    /\ refreshTokens = <<>>
    /\ refreshCalls = [c \in AuthCallers |-> IdleRefresh]

Init == InitWith(DefaultFlappingConfig)

\* values a read of the wall clock may return: not before the last one read
ClockReads == now .. (IF now > MaxTime THEN now ELSE MaxTime)

\* ------------------------------------------------------- repository reads
HasRow(f) == alerts[f].exists

\* AlertService.shouldProcess
shouldProcess_Any(alert) == alert.severity \in Severities

shouldProcess(alert) ==
    alert.severity = "warning" \/ alert.severity = "critical"

\* AlertService.shouldSendToSlack
shouldSendToSlack_Critical(alert) == alert.severity = "critical"

shouldSendToSlack(alert) ==
    IF alert.severity = "warning" \/ alert.severity = "critical"
    THEN TRUE ELSE FALSE

\* Rows GetFiringIncident may return: firing, enabled, latest fired_at
\* (ORDER BY fired_at DESC LIMIT 1; ties are broken arbitrarily by SQL).
FiringIncidents ==
    { i \in 1 .. Len(incidents) :
        incidents[i].status = "firing" /\ incidents[i].is_enabled }

GetFiringIncident ==
    { i \in FiringIncidents :
        \A j \in FiringIncidents : incidents[j].fired_at <= incidents[i].fired_at }

\* Postgres.UpdateIncidentSeverity: the row after the conditional UPDATE
UpdateIncidentSeverity_Overwrite(row, severity) ==
    [row EXCEPT !.severity = severity]

UpdateIncidentSeverity(row, severity) ==
    IF row.severity = "info" \/ (row.severity = "warning" /\ severity = "critical")
    THEN [row EXCEPT !.severity = severity]
    ELSE row

\* Postgres.CreateIncident: the inserted row
CreateIncident(title, severity, firedAt) ==
    [title |-> title, severity |-> severity, status |-> "firing",
     fired_at |-> firedAt, resolved_at |-> Null, resolved_by |-> "",
     is_enabled |-> TRUE]

\* Postgres.SaveAlert: the alerts table after the upsert
SaveAlert(alert, incidentID) ==
    IF HasRow(alert.fingerprint)
    THEN [alerts EXCEPT ![alert.fingerprint] =
            [@ EXCEPT !.incident_id = IF incidentID # 0 THEN incidentID ELSE @,
                      !.status = alert.status]]
    ELSE [alerts EXCEPT ![alert.fingerprint] =
            [exists |-> TRUE, incident_id |-> incidentID,
             severity |-> alert.severity, status |-> alert.status,
             fired_at |-> alert.startsAt, resolved_at |-> Null,
             thread_ts |-> 0, is_flapping |-> FALSE,
             flap_cycle_count |-> 0, flap_window_start |-> Null]]

\* Postgres.IsAlertFlapping
IsAlertFlapping(f) == IF HasRow(f) THEN alerts[f].is_flapping ELSE FALSE

\* Postgres.IsAlertAlreadyResolved
IsAlertAlreadyResolved_Strict(f, endsAt) ==
    IF ~HasRow(f) THEN FALSE
    ELSE IF alerts[f].resolved_at = Null THEN FALSE
    ELSE endsAt < alerts[f].resolved_at

IsAlertAlreadyResolved(f, endsAt) ==
    IF ~HasRow(f) THEN FALSE
    ELSE IF alerts[f].resolved_at = Null THEN FALSE
    ELSE ~(endsAt > alerts[f].resolved_at)

\* Postgres.UpdateAlertResolved
UpdateAlertResolved(f, resolvedAt) ==
    IF HasRow(f)
    THEN [alerts EXCEPT ![f] = [@ EXCEPT !.status = "resolved",
                                         !.resolved_at = resolvedAt]]
    ELSE alerts

\* Postgres.GetAlertThreadTS: 0 stands for ("", false)
GetAlertThreadTS(f) == IF HasRow(f) THEN alerts[f].thread_ts ELSE 0

\* Postgres.UpdateAlertThreadTS
UpdateAlertThreadTS_Lost(f, threadTS) == alerts

UpdateAlertThreadTS(f, threadTS) ==
    IF HasRow(f) THEN [alerts EXCEPT ![f] = [@ EXCEPT !.thread_ts = threadTS]]
    ELSE alerts

\* Postgres.RecordStateTransition: the inserted row
RecordStateTransition(f, fromStatus, toStatus, timestamp) ==
    [alert_id |-> f, from_status |-> fromStatus, to_status |-> toStatus,
     transitioned_at |-> timestamp]

\* Postgres.CountFlappingCycles: <<cycleCount, windowStart>> when the clock
\* reads t
CountFlappingCycles(f, windowMinutes, t) ==
    LET row == alerts[f] IN
    IF row.flap_window_start = Null THEN <<1, t>>
    ELSE IF row.flap_window_start < t - windowMinutes THEN <<1, t>>
    ELSE <<Cardinality({ k \in 1 .. Len(transitions) :
                           /\ transitions[k].alert_id = f
                           /\ transitions[k].to_status = "resolved"
                           /\ transitions[k].transitioned_at >= row.flap_window_start }),
           row.flap_window_start>>

\* Postgres.MarkAlertAsFlapping
MarkAlertAsFlapping_FlagOnly(f, isFlapping, cycleCount, windowStart) ==
    IF ~HasRow(f) THEN alerts
    ELSE [alerts EXCEPT ![f] = [@ EXCEPT !.is_flapping = isFlapping]]

MarkAlertAsFlapping(f, isFlapping, cycleCount, windowStart) ==
    IF ~HasRow(f) THEN alerts
    ELSE IF isFlapping
    THEN [alerts EXCEPT ![f] = [@ EXCEPT !.is_flapping = TRUE,
                                         !.flap_cycle_count = cycleCount,
                                         !.flap_window_start = windowStart]]
    ELSE [alerts EXCEPT ![f] = [@ EXCEPT !.is_flapping = FALSE,
                                         !.flap_cycle_count = 0,
                                         !.flap_window_start = Null]]

\* Postgres.HasTransitionsSince
HasTransitionsSince(f, since) ==
    \E k \in 1 .. Len(transitions) :
        transitions[k].alert_id = f /\ transitions[k].transitioned_at > since

\* Postgres.UpdateFlappingCycleCount
UpdateFlappingCycleCount(f, cycleCount) ==
    IF HasRow(f) THEN [alerts EXCEPT ![f] = [@ EXCEPT !.flap_cycle_count = cycleCount]]
    ELSE alerts


\* ------------------------------------------------------------ Slack client
\* SlackClient.StoreThreadTS
StoreThreadTS(f, threadTS) == [threadMap EXCEPT ![f] = threadTS]

\* SlackClient.GetThreadTS: 0 stands for ("", false)
GetThreadTS(f) == threadMap[f]

\* SlackClient.DeleteThreadTS
DeleteThreadTS(f) == [threadMap EXCEPT ![f] = 0]

\* SlackClient.SendAlert, Slack having accepted the message: the message as
\* posted (a resolved card goes to the remembered thread) and the map after
SendAlertMessage(alert, status) ==
    [kind |-> "alert", fingerprint |-> alert.fingerprint, status |-> status,
     thread |-> IF status = "resolved" THEN GetThreadTS(alert.fingerprint) ELSE 0,
     ts |-> posts + 1]

SendAlertThreadMap_AnyRoot(alert, status) ==
    StoreThreadTS(alert.fingerprint, posts + 1)

SendAlertThreadMap(alert, status) ==
    IF status = "firing" THEN StoreThreadTS(alert.fingerprint, posts + 1)
    ELSE IF status = "resolved" THEN DeleteThreadTS(alert.fingerprint)
    ELSE threadMap

\* SlackClient.SendFlappingDetection, Slack having accepted the message
SendFlappingDetection(alert) ==
    [kind |-> "flapping", fingerprint |-> alert.fingerprint,
     status |-> alert.status, thread |-> 0, ts |-> posts + 1]

\* ---------------------------------------------------------- webhook handler
Local(h) == handlers[h]

\* position after step 6 (label skipSlack): step 7 runs for firing alerts only
SkipSlack(alert) == IF alert.status = "firing" THEN "threadGet" ELSE "analysis"

\* position after detectFlapping returns: step 3 runs for resolved alerts only
AfterDetect(alert) == IF alert.status = "resolved" THEN "dup" ELSE "restore"

\* handler accepts a webhook request carrying n alerts (len(webhook.Alerts))
StartWebhook(h, maxCalls, Batches) ==
    /\ Local(h).pc = "idle"
    /\ calls < maxCalls
    /\ \E n \in Batches :
         handlers' = [handlers EXCEPT ![h] =
                        [IdleHandler EXCEPT !.pc = "loop", !.remaining = n, !.n = n]]
    /\ calls' = calls + 1
    /\ UNCHANGED <<incidents, alerts, transitions, threadMap, posts, tasks,
                   clearances, now, flappingConfig, authVars, rcaVars, agentVars, ops, last>>

\* head of `for _, alert := range webhook.Alerts` and step 0 (shouldProcess);
\* the locals of the alert just finished stay readable until the next one
\* is taken
LoopNext(h, Inp) ==
    /\ Local(h).pc = "loop"
    /\ IF Local(h).remaining = 0
       THEN handlers' = [handlers EXCEPT ![h].pc = "done"]
       ELSE \E a \in Inp :
              handlers' = [handlers EXCEPT ![h] =
                [@ EXCEPT !.pc = IF shouldProcess(a) THEN "get" ELSE "loop",
                          !.remaining = @ - 1,
                          !.alert = a,
                          !.incidentID = 0, !.found = 0,
                          !.isFlapping = FALSE, !.isNewFlapping = FALSE,
                          !.currentStatus = "", !.cycleCount = 0,
                          !.windowStart = Null, !.threadTS = 0,
                          !.sent0 = Local(h).sent, !.failed0 = Local(h).failed,
                          !.taken = @ + 1,
                          !.skipped = IF shouldProcess(a) THEN @ ELSE @ + 1,
                          !.flags = NoFlags,
                          !.pre = Snapshot]]
    /\ UNCHANGED <<incidents, alerts, transitions, threadMap, posts, tasks,
                   clearances, now, flappingConfig, authVars, rcaVars, agentVars, calls, ops, last>>

\* getOrCreateIncident, s.db.GetFiringIncident()
GetIncident(h, OK) ==
    /\ Local(h).pc = "get"
    /\ \E ok \in OK :
         IF ~ok
         THEN handlers' = [handlers EXCEPT ![h] =
                [@ EXCEPT !.pc = "save", !.incidentID = 0,
                          !.flags.corrFail = TRUE]]
         ELSE IF GetFiringIncident = {}
         THEN handlers' = [handlers EXCEPT ![h].pc = "create"]
         ELSE \E i \in GetFiringIncident :
                handlers' = [handlers EXCEPT ![h] =
                    [@ EXCEPT !.pc = "sev", !.found = i]]
    /\ UNCHANGED <<incidents, alerts, transitions, threadMap, posts, tasks,
                   clearances, now, flappingConfig, authVars, rcaVars, agentVars, calls, ops, last>>

\* getOrCreateIncident, s.db.UpdateIncidentSeverity (its error is dropped)
UpdateSeverity(h, OKx) ==
    /\ Local(h).pc = "sev"
    /\ \E ok \in OKx :
         incidents' = IF ok
                      THEN [incidents EXCEPT ![Local(h).found] =
                              UpdateIncidentSeverity(@, Local(h).alert.severity)]
                      ELSE incidents
    /\ handlers' = [handlers EXCEPT ![h] =
                      [@ EXCEPT !.pc = "save", !.incidentID = Local(h).found]]
    /\ UNCHANGED <<alerts, transitions, threadMap, posts, tasks,
                   clearances, now, flappingConfig, authVars, rcaVars, agentVars, calls, ops, last>>

\* getOrCreateIncident, s.db.CreateIncident("Ongoing", "TBD", alert.StartsAt)
CreateIncidentStep(h, OK) ==
    /\ Local(h).pc = "create"
    /\ \E ok \in OK :
         IF ok
         THEN /\ incidents' = Append(incidents,
                     CreateIncident("Ongoing", "TBD", Local(h).alert.startsAt))
              /\ handlers' = [handlers EXCEPT ![h] =
                     [@ EXCEPT !.pc = "save", !.incidentID = Len(incidents) + 1]]
         ELSE /\ incidents' = incidents
              /\ handlers' = [handlers EXCEPT ![h] =
                     [@ EXCEPT !.pc = "save", !.incidentID = 0,
                               !.flags.corrFail = TRUE]]
    /\ UNCHANGED <<alerts, transitions, threadMap, posts, tasks,
                   clearances, now, flappingConfig, authVars, rcaVars, agentVars, calls, ops, last>>

\* step 2, s.db.SaveAlert(alert, incidentID)
SaveAlertStep_Abort(h, OK) ==
    /\ Local(h).pc = "save"
    /\ \E ok \in OK :
         IF ok
         THEN /\ alerts' = SaveAlert(Local(h).alert, Local(h).incidentID)
              /\ handlers' = [handlers EXCEPT ![h].pc = "status"]
         ELSE /\ alerts' = alerts
              /\ handlers' = [handlers EXCEPT ![h] =
                     [@ EXCEPT !.pc = "loop", !.flags.saveFail = TRUE]]
    /\ UNCHANGED <<incidents, transitions, threadMap, posts, tasks,
                   clearances, now, flappingConfig, authVars, rcaVars, agentVars, calls, ops, last>>

SaveAlertStep(h, OK) ==
    /\ Local(h).pc = "save"
    /\ \E ok \in OK :
         IF ok
         THEN /\ alerts' = SaveAlert(Local(h).alert, Local(h).incidentID)
              /\ handlers' = [handlers EXCEPT ![h].pc = "status"]
         ELSE /\ alerts' = alerts
              /\ handlers' = [handlers EXCEPT ![h] =
                     [@ EXCEPT !.pc = "status", !.flags.saveFail = TRUE]]
    /\ UNCHANGED <<incidents, transitions, threadMap, posts, tasks,
                   clearances, now, flappingConfig, authVars, rcaVars, agentVars, calls, ops, last>>

\* positions inside detectFlapping, one per repository call
DetectPcs == {"status", "flapSame", "record", "flapFiring", "count", "was",
              "mark", "updCount"}

\* detectFlapping: a transition is recorded only when the stored status
\* differs from the webhook's
StatusChanged_Always(currentStatus, status) == TRUE

StatusChanged(currentStatus, status) == currentStatus # status

\* step 2.5, detectFlapping(alert): one repository call per step
DetectFlapping(h, OKx) ==
    /\ Local(h).pc \in DetectPcs
    /\ \E ok \in OKx, t \in (IF Local(h).pc = "count" THEN ClockReads ELSE {now}) :
         LET l == Local(h)
             a == l.alert
             f == a.fingerprint
             ret(isF, isNew) ==
                 [l EXCEPT !.pc = AfterDetect(a), !.isFlapping = isF,
                           !.isNewFlapping = isNew]
             timestamp == IF a.status = "resolved" THEN a.endsAt ELSE a.startsAt
             counted == CountFlappingCycles(f, flappingConfig.DetectionWindowMinutes, t)
         IN
         CASE l.pc = "status" ->
                \* flappingConfig.Enabled, then GetAlertCurrentStatus
                /\ handlers' = [handlers EXCEPT ![h] =
                       IF ~FlappingEnabled \/ ~ok \/ ~HasRow(f)
                       THEN ret(FALSE, FALSE)
                       ELSE [l EXCEPT !.currentStatus = alerts[f].status,
                                      !.pc = IF StatusChanged(alerts[f].status, a.status)
                                             THEN "record" ELSE "flapSame"]]
                /\ UNCHANGED <<alerts, transitions, now>>
           [] l.pc = "flapSame" ->
                /\ handlers' = [handlers EXCEPT ![h] =
                       ret(ok /\ IsAlertFlapping(f), FALSE)]
                /\ UNCHANGED <<alerts, transitions, now>>
           [] l.pc = "record" ->
                /\ transitions' =
                       IF ok
                       THEN Append(transitions,
                              RecordStateTransition(f, l.currentStatus, a.status, timestamp))
                       ELSE transitions
                /\ handlers' = [handlers EXCEPT ![h] =
                       IF ~ok THEN ret(FALSE, FALSE)
                       ELSE [l EXCEPT !.flags.recorded = TRUE,
                                      !.pc = IF a.status # "resolved"
                                             THEN "flapFiring" ELSE "count"]]
                /\ UNCHANGED <<alerts, now>>
           [] l.pc = "flapFiring" ->
                /\ handlers' = [handlers EXCEPT ![h] =
                       ret(ok /\ IsAlertFlapping(f), FALSE)]
                /\ UNCHANGED <<alerts, transitions, now>>
           [] l.pc = "count" ->
                /\ handlers' = [handlers EXCEPT ![h] =
                       IF ~ok \/ ~HasRow(f) THEN ret(FALSE, FALSE)
                       ELSE [l EXCEPT !.cycleCount = counted[1],
                                      !.windowStart = counted[2],
                                      !.pc = "was"]]
                /\ now' = IF ~ok \/ ~HasRow(f) THEN now ELSE t
                /\ UNCHANGED <<alerts, transitions>>
           [] l.pc = "was" ->
                /\ handlers' = [handlers EXCEPT ![h] =
                       LET wasFlapping == ok /\ IsAlertFlapping(f)
                           isNowFlapping == l.cycleCount >= flappingConfig.CycleThreshold
                       IN IF isNowFlapping /\ ~wasFlapping THEN [l EXCEPT !.pc = "mark"]
                          ELSE IF isNowFlapping THEN [l EXCEPT !.pc = "updCount"]
                          ELSE ret(FALSE, FALSE)]
                /\ UNCHANGED <<alerts, transitions, now>>
           [] l.pc = "mark" ->
                /\ alerts' = IF ok
                             THEN MarkAlertAsFlapping(f, TRUE, l.cycleCount, l.windowStart)
                             ELSE alerts
                /\ handlers' = [handlers EXCEPT ![h] = ret(TRUE, TRUE)]
                /\ UNCHANGED <<transitions, now>>
           [] l.pc = "updCount" ->
                /\ alerts' = IF ok THEN UpdateFlappingCycleCount(f, l.cycleCount)
                             ELSE alerts
                /\ handlers' = [handlers EXCEPT ![h] = ret(TRUE, FALSE)]
                /\ UNCHANGED <<transitions, now>>
    /\ UNCHANGED <<incidents, threadMap, posts, tasks, clearances,
                   flappingConfig, authVars, rcaVars, agentVars, calls, ops, last>>

\* step 3, s.db.IsAlertAlreadyResolved (its error is dropped: not a duplicate)
DupGuard(h, OKx) ==
    /\ Local(h).pc = "dup"
    /\ \E ok \in OKx :
         LET alreadyResolved ==
                 ok /\ IsAlertAlreadyResolved(Local(h).alert.fingerprint,
                                              Local(h).alert.endsAt)
         IN handlers' = [handlers EXCEPT ![h] =
                IF alreadyResolved
                THEN [@ EXCEPT !.pc = "loop", !.flags.dup = TRUE,
                               !.skipped = @ + 1]
                ELSE [@ EXCEPT !.pc = "resolve"]]
    /\ UNCHANGED <<incidents, alerts, transitions, threadMap, posts, tasks,
                   clearances, now, flappingConfig, authVars, rcaVars, agentVars, calls, ops, last>>

\* step 3, s.db.UpdateAlertResolved and the clearance goroutine
UpdateResolved(h, OK) ==
    /\ Local(h).pc = "resolve"
    /\ \E ok \in OK :
         IF ok
         THEN /\ alerts' = UpdateAlertResolved(Local(h).alert.fingerprint,
                                               Local(h).alert.endsAt)
              /\ handlers' = [handlers EXCEPT ![h].pc = "restore"]
         ELSE /\ alerts' = alerts
              /\ handlers' = [handlers EXCEPT ![h] =
                     [@ EXCEPT !.pc = "restore", !.flags.resFail = TRUE]]
    /\ clearances' = IF Local(h).isFlapping
                     THEN clearances \cup {[fingerprint |-> Local(h).alert.fingerprint,
                                            resolvedAt |-> Local(h).alert.endsAt,
                                            pc |-> "sleep"]}
                     ELSE clearances
    /\ UNCHANGED <<incidents, transitions, threadMap, posts, tasks,
                   now, flappingConfig, authVars, rcaVars, agentVars, calls, ops, last>>

\* steps 4 and 5: shouldSendToSlack, then for a resolved alert
\* GetAlertThreadTS and StoreThreadTS
RestoreThreadTS(h, OKx) ==
    /\ Local(h).pc = "restore"
    /\ \E ok \in OKx :
         LET a == Local(h).alert
             threadTS == IF ok THEN GetAlertThreadTS(a.fingerprint) ELSE 0
         IN IF ~shouldSendToSlack(a)
            THEN /\ handlers' = [handlers EXCEPT ![h].pc = "loop"]
                 /\ threadMap' = threadMap
            ELSE /\ handlers' = [handlers EXCEPT ![h].pc = "post"]
                 /\ threadMap' = IF a.status = "resolved" /\ threadTS # 0
                                 THEN StoreThreadTS(a.fingerprint, threadTS)
                                 ELSE threadMap
    /\ UNCHANGED <<incidents, alerts, transitions, posts, tasks,
                   clearances, now, flappingConfig, authVars, rcaVars, agentVars, calls, ops, last>>

\* step 6 without the `continue` after a failed post
SendToSlack_NoContinue(h, Chat) ==
    /\ Local(h).pc = "post"
    /\ \E chat \in Chat :
         LET l == Local(h)
             a == l.alert
         IN
         IF ~l.isNewFlapping /\ l.isFlapping
         THEN /\ handlers' = [handlers EXCEPT ![h] =
                    [l EXCEPT !.pc = SkipSlack(a), !.sent = @ + 1,
                              !.flags.suppressed = TRUE]]
              /\ UNCHANGED <<posts, threadMap>>
         ELSE IF ~chat
         THEN /\ handlers' = [handlers EXCEPT ![h] =
                    [l EXCEPT !.pc = SkipSlack(a), !.failed = @ + 1,
                              !.flags.chatTried = TRUE,
                              !.flags.flapPost = l.isNewFlapping]]
              /\ UNCHANGED <<posts, threadMap>>
         ELSE /\ handlers' = [handlers EXCEPT ![h] =
                    [l EXCEPT !.pc = SkipSlack(a), !.sent = @ + 1,
                              !.flags.chatTried = TRUE, !.flags.chatOk = TRUE,
                              !.flags.flapPost = l.isNewFlapping,
                              !.flags.post = IF l.isNewFlapping
                                             THEN SendFlappingDetection(a)
                                             ELSE SendAlertMessage(a, a.status)]]
              /\ posts' = posts + 1
              /\ threadMap' = IF l.isNewFlapping THEN threadMap
                              ELSE SendAlertThreadMap(a, a.status)
    /\ UNCHANGED <<incidents, alerts, transitions, tasks,
                   clearances, now, flappingConfig, authVars, rcaVars, agentVars, calls, ops, last>>

\* step 6: the Slack call chosen by the flapping classification, and the
\* sent/failed counters; chat is Slack's answer (ok=true or an error)
SendToSlack(h, Chat) ==
    /\ Local(h).pc = "post"
    /\ \E chat \in Chat :
         LET l == Local(h)
             a == l.alert
         IN
         IF ~l.isNewFlapping /\ l.isFlapping
         THEN /\ handlers' = [handlers EXCEPT ![h] =
                    [l EXCEPT !.pc = SkipSlack(a), !.sent = @ + 1,
                              !.flags.suppressed = TRUE]]
              /\ UNCHANGED <<posts, threadMap>>
         ELSE IF ~chat
         THEN /\ handlers' = [handlers EXCEPT ![h] =
                    [l EXCEPT !.pc = "loop", !.failed = @ + 1,
                              !.flags.chatTried = TRUE,
                              !.flags.flapPost = l.isNewFlapping]]
              /\ UNCHANGED <<posts, threadMap>>
         ELSE /\ handlers' = [handlers EXCEPT ![h] =
                    [l EXCEPT !.pc = SkipSlack(a), !.sent = @ + 1,
                              !.flags.chatTried = TRUE, !.flags.chatOk = TRUE,
                              !.flags.flapPost = l.isNewFlapping,
                              !.flags.post = IF l.isNewFlapping
                                             THEN SendFlappingDetection(a)
                                             ELSE SendAlertMessage(a, a.status)]]
              /\ posts' = posts + 1
              /\ threadMap' = IF l.isNewFlapping THEN threadMap
                              ELSE SendAlertThreadMap(a, a.status)
    /\ UNCHANGED <<incidents, alerts, transitions, tasks,
                   clearances, now, flappingConfig, authVars, rcaVars, agentVars, calls, ops, last>>

\* step 7, s.slackClient.GetThreadTS
ThreadGet(h) ==
    /\ Local(h).pc = "threadGet"
    /\ handlers' = [handlers EXCEPT ![h] =
           [@ EXCEPT !.threadTS = GetThreadTS(Local(h).alert.fingerprint),
                     !.pc = IF GetThreadTS(Local(h).alert.fingerprint) # 0
                            THEN "threadPut" ELSE "analysis"]]
    /\ UNCHANGED <<incidents, alerts, transitions, threadMap, posts, tasks,
                   clearances, now, flappingConfig, authVars, rcaVars, agentVars, calls, ops, last>>

\* step 7, s.db.UpdateAlertThreadTS
ThreadPut(h, OKx) ==
    /\ Local(h).pc = "threadPut"
    /\ \E ok \in OKx :
         alerts' = IF ok
                   THEN UpdateAlertThreadTS(Local(h).alert.fingerprint, Local(h).threadTS)
                   ELSE alerts
    /\ handlers' = [handlers EXCEPT ![h].pc = "analysis"]
    /\ UNCHANGED <<incidents, transitions, threadMap, posts, tasks,
                   clearances, now, flappingConfig, authVars, rcaVars, agentVars, calls, ops, last>>

\* an AgentService.RequestAnalysis goroutine as `go` starts it
NewAnalysisTask(alert, threadTS) ==
    [fingerprint |-> alert.fingerprint, status |-> alert.status,
     threadTS |-> threadTS, pc |-> "agent",
     agentOk |-> FALSE, storeOk |-> FALSE, postOk |-> FALSE]

\* analysis requested for every alert that reaches step 8, flapping or not
RequestAnalysis_Always(h, OKx) ==
    /\ Local(h).pc = "analysis"
    /\ tasks' = tasks + 1
    /\ handlers' = [handlers EXCEPT ![h] =
           [@ EXCEPT !.pc = "loop", !.flags.launched = TRUE]]
    /\ UNCHANGED <<incidents, alerts, transitions, threadMap, posts,
                   clearances, now, flappingConfig, authVars, rcaVars, agentVars, calls, ops, last>>

\* step 8: GetAlertThreadTS and `go s.agentService.RequestAnalysis(...)`
RequestAnalysis(h, OKx) ==
    /\ Local(h).pc = "analysis"
    /\ \E ok \in OKx :
         LET l == Local(h)
             a == l.alert
             threadTS == IF ok THEN GetAlertThreadTS(a.fingerprint) ELSE 0
         IN IF ~l.isFlapping
            THEN /\ tasks' = tasks + 1
                 /\ analysisTasks' = Append(analysisTasks,
                        NewAnalysisTask(a, threadTS))
                 /\ handlers' = [handlers EXCEPT ![h] =
                        [l EXCEPT !.pc = "loop", !.flags.launched = TRUE,
                                  !.flags.task =
                                      [fingerprint |-> a.fingerprint,
                                       status |-> a.status,
                                       threadTS |-> threadTS,
                                       incidentID |-> l.incidentID]]]
            ELSE /\ UNCHANGED <<tasks, analysisTasks>>
                 /\ handlers' = [handlers EXCEPT ![h].pc = "loop"]
    /\ UNCHANGED <<incidents, alerts, transitions, threadMap, posts,
                   clearances, now, flappingConfig, authVars, rcaVars, calls, ops, last,
                   alertAnalyses, replies>>

\* `return sent, failed`: the handler answers and becomes free again
Return(h) ==
    /\ Local(h).pc = "done"
    /\ last' = [n |-> Local(h).n, alert |-> Local(h).alert]
    /\ handlers' = [handlers EXCEPT ![h] = IdleHandler]
    /\ UNCHANGED <<incidents, alerts, transitions, threadMap, posts, tasks,
                   clearances, now, flappingConfig, authVars, rcaVars, agentVars, calls, ops>>

\* AlertService.ProcessWebhook: every step of handler h.  OK holds the
\* outcomes of incident correlation, the alert upsert and the resolved_at
\* update, OKx those of the remaining repository calls.
ProcessWebhook(h, OK, OKx, Chat, Inp, maxCalls, Batches) ==
    \/ StartWebhook(h, maxCalls, Batches)
    \/ LoopNext(h, Inp)
    \/ GetIncident(h, OK)
    \/ UpdateSeverity(h, OKx)
    \/ CreateIncidentStep(h, OK)
    \/ SaveAlertStep(h, OK)
    \/ DetectFlapping(h, OKx)
    \/ DupGuard(h, OKx)
    \/ UpdateResolved(h, OK)
    \/ RestoreThreadTS(h, OKx)
    \/ SendToSlack(h, Chat)
    \/ ThreadGet(h)
    \/ ThreadPut(h, OKx)
    \/ RequestAnalysis(h, OKx)
    \/ Return(h)

\* AlertService.scheduleFlappingClearanceCheck: one step of the goroutine c.
\* It sleeps until resolvedAt + ClearanceWindowMinutes, re-reads the alert,
\* asks for transitions since resolvedAt, clears the flag and posts the
\* cleared message to the persisted thread (SlackClient.SendFlappingCleared:
\* one message in that thread when Slack accepts it).
ClearanceCheck(OKx, Chat) ==
    \E c \in clearances, ok \in OKx, chat \in Chat :
        LET f == c.fingerprint
            alert == alerts[f]
            checkTime == c.resolvedAt + flappingConfig.ClearanceWindowMinutes
            goto(pc) == (clearances \ {c}) \cup {[c EXCEPT !.pc = pc]}
            return == clearances \ {c}
        IN
        /\ CASE c.pc = "sleep" ->
                  /\ now' = IF now > checkTime THEN now ELSE checkTime
                  /\ clearances' = goto("read")
                  /\ UNCHANGED <<alerts, posts>>
             [] c.pc = "read" ->
                  /\ clearances' =
                         IF ~ok \/ ~HasRow(f) THEN return
                         ELSE IF ~alert.is_flapping THEN return
                         ELSE IF alert.status = "firing"
                                   \/ (alert.resolved_at # Null
                                         /\ alert.resolved_at < c.resolvedAt)
                         THEN return
                         ELSE goto("since")
                  /\ UNCHANGED <<alerts, posts, now>>
             [] c.pc = "since" ->
                  /\ clearances' = IF ~ok \/ HasTransitionsSince(f, c.resolvedAt)
                                    THEN return ELSE goto("clear")
                  /\ UNCHANGED <<alerts, posts, now>>
             [] c.pc = "clear" ->
                  /\ alerts' = IF ok THEN MarkAlertAsFlapping(f, FALSE, 0, Null)
                               ELSE alerts
                  /\ clearances' = IF ok THEN goto("notify") ELSE return
                  /\ UNCHANGED <<posts, now>>
             [] c.pc = "notify" ->
                  /\ posts' = IF GetAlertThreadTS(f) # 0 /\ chat
                              THEN posts + 1 ELSE posts
                  /\ clearances' = return
                  /\ UNCHANGED <<alerts, now>>
        /\ UNCHANGED <<incidents, transitions, threadMap, tasks,
                       flappingConfig, authVars, rcaVars, agentVars, handlers, calls, ops, last>>

\* Postgres.UpdateAlertAnalysis: the answer of task k stored on the alert
UpdateAlertAnalysis(f, k) ==
    IF HasRow(f) THEN [alertAnalyses EXCEPT ![f] = k] ELSE alertAnalyses

\* `if threadTS == ""`: the goroutine has nothing to do
NoThread_Never(threadTS) == FALSE

NoThread(threadTS) == threadTS = 0

\* AgentService.RequestAnalysis: one step of the k-th goroutine.  Without a
\* thread reference it returns at once; else it asks the agent, stores the
\* answer on the alert (a failure is logged only) and sends the answer to
\* the thread with SlackClient.SendToThread.
AgentRequestAnalysis(OKx, Chat) ==
    \E k \in 1 .. Len(analysisTasks), ok \in OKx, chat \in Chat :
        LET task == analysisTasks[k] IN
        /\ task.pc # "done"
        /\ CASE task.pc = "agent" ->
                  /\ analysisTasks' =
                         IF NoThread(task.threadTS) \/ ~ok
                         THEN [analysisTasks EXCEPT ![k].pc = "done"]
                         ELSE [analysisTasks EXCEPT ![k].pc = "store",
                                                    ![k].agentOk = TRUE]
                  /\ UNCHANGED <<alertAnalyses, replies, posts>>
             [] task.pc = "store" ->
                  /\ alertAnalyses' = IF ok THEN UpdateAlertAnalysis(task.fingerprint, k)
                                      ELSE alertAnalyses
                  /\ analysisTasks' = [analysisTasks EXCEPT ![k].pc = "post",
                                                            ![k].storeOk = ok]
                  /\ UNCHANGED <<replies, posts>>
             [] task.pc = "post" ->
                  /\ posts' = IF chat THEN posts + 1 ELSE posts
                  /\ replies' = IF chat
                                THEN replies \cup {[thread |-> task.threadTS,
                                                    ts |-> posts + 1, task |-> k]}
                                ELSE replies
                  /\ analysisTasks' = [analysisTasks EXCEPT ![k].pc = "done",
                                                            ![k].postOk = chat]
                  /\ UNCHANGED alertAnalyses
        /\ UNCHANGED <<incidents, alerts, transitions, threadMap, tasks,
                       clearances, now, flappingConfig, authVars, rcaVars, handlers,
                       calls, ops, last>>

\* ---------------------------------------------------------------- operators
\* an incident_id that no incident row carries
DanglingID == 99

\* POST /incidents/mock, Postgres.CreateMockIncident
CreateMockIncident ==
    /\ calls + ops < MaxRequests
    /\ ops' = ops + 1
    /\ \E t \in ClockReads :
         /\ now' = t
         /\ incidents' = Append(incidents,
                [title |-> "mock", severity |-> "warning", status |-> "firing",
                 fired_at |-> t, resolved_at |-> Null, resolved_by |-> "",
                 is_enabled |-> TRUE])
    /\ UNCHANGED <<alerts, transitions, threadMap, posts, tasks, clearances,
                   flappingConfig, authVars, rcaVars, agentVars, handlers, calls, last>>

\* Postgres.ResolveIncident: rows the UPDATE ... WHERE incident_id = id AND
\* status = 'firing' affects
ResolveIncidentRows_AnyStatus(id) ==
    IF id \in 1 .. Len(incidents) THEN 1 ELSE 0

ResolveIncidentRows(id) ==
    IF id \in 1 .. Len(incidents) /\ incidents[id].status = "firing"
    THEN 1 ELSE 0

\* a requestIncidentSummary goroutine as `go` starts it
NewSummaryTask(id) ==
    [incidentID |-> id, pc |-> "fetch", resp |-> NoResponse,
     saved |-> FALSE, inserted |-> 0]

\* POST /incidents/:id/resolve, RcaService.ResolveIncident: the repository
\* update, an error when it affected no row, else the summary goroutine
ResolveIncident ==
    /\ calls + ops < MaxRequests
    /\ ops' = ops + 1
    /\ \E id \in (1 .. Len(incidents)) \cup {DanglingID}, t \in ClockReads :
         IF ResolveIncidentRows(id) = 0
         THEN UNCHANGED <<now, incidents, summaryTasks>>
         ELSE /\ now' = t
              /\ incidents' = [incidents EXCEPT ![id] =
                     [@ EXCEPT !.status = "resolved", !.resolved_at = t,
                               !.resolved_by = "user"]]
              /\ summaryTasks' = Append(summaryTasks, NewSummaryTask(id))
    /\ UNCHANGED <<alerts, transitions, threadMap, posts, tasks, clearances,
                   flappingConfig, authVars, handlers, calls, last, analyses, embeddings,
                   embedCalls, created, agentVars>>

\* Postgres.UpdateIncidentAnalysis: UPDATE incidents ... WHERE incident_id = id
UpdateIncidentAnalysis(id, resp) ==
    IF id \in 1 .. Len(incidents)
    THEN { a \in analyses : a.incident_id # id }
            \cup {[incident_id |-> id, title |-> resp.title,
                   summary |-> resp.summary, detail |-> resp.detail]}
    ELSE analyses

\* Postgres.InsertEmbedding
InsertEmbedding(id, summary) ==
    Append(embeddings, [incident_id |-> id, incident_summary |-> summary])

\* `if s.embeddingService != nil && resp.Summary != ""`
ShouldEmbed_Always(resp) == TRUE

ShouldEmbed(resp) == EmbeddingEnabled /\ resp.summary # ""

\* RcaService.requestIncidentSummary: one step of the k-th goroutine.  It
\* reads the incident and its alerts, asks the agent for the summary, stores
\* it on the incident and then creates the embedding of a non-empty summary
\* (EmbeddingService.CreateEmbedding: EmbedText, then InsertEmbedding).
requestIncidentSummary(OK) ==
    \E k \in 1 .. Len(summaryTasks), ok \in OK, resp \in Responses :
        LET task == summaryTasks[k]
            id == task.incidentID
            goto(pc) == [summaryTasks EXCEPT ![k].pc = pc]
        IN
        /\ task.pc # "done"
        /\ CASE task.pc = "fetch" ->
                  /\ summaryTasks' = IF ok THEN goto("agent") ELSE goto("done")
                  /\ UNCHANGED <<analyses, embeddings, embedCalls>>
             [] task.pc = "agent" ->
                  /\ summaryTasks' =
                         IF ok
                         THEN [summaryTasks EXCEPT ![k].pc = "save", ![k].resp = resp]
                         ELSE goto("done")
                  /\ UNCHANGED <<analyses, embeddings, embedCalls>>
             [] task.pc = "save" ->
                  /\ analyses' = IF ok THEN UpdateIncidentAnalysis(id, task.resp)
                                 ELSE analyses
                  /\ summaryTasks' =
                         IF ~ok THEN goto("done")
                         ELSE [summaryTasks EXCEPT
                                 ![k].saved = TRUE,
                                 ![k].pc = IF ShouldEmbed(task.resp)
                                           THEN "embed" ELSE "done"]
                  /\ UNCHANGED <<embeddings, embedCalls>>
             [] task.pc = "embed" ->
                  /\ summaryTasks' = IF ok THEN goto("insert") ELSE goto("done")
                  /\ embedCalls' = embedCalls + 1
                  /\ UNCHANGED <<analyses, embeddings>>
             [] task.pc = "insert" ->
                  /\ embeddings' = IF ok THEN InsertEmbedding(id, task.resp.summary)
                                   ELSE embeddings
                  /\ summaryTasks' =
                         [summaryTasks EXCEPT ![k].pc = "done",
                                              ![k].inserted = IF ok THEN @ + 1 ELSE @]
                  /\ UNCHANGED <<analyses, embedCalls>>
        /\ UNCHANGED <<incidents, alerts, transitions, threadMap, posts, tasks,
                       clearances, now, flappingConfig, authVars, handlers, calls, ops, last,
                       created, agentVars>>

\* the model name EmbeddingClient.EmbedText returns beside the vector
EmbeddingModel == "text-embedding-004"

\* arguments of a direct CreateEmbedding call; 0 and "" are the empty strings
EmbeddingIncidentIDs == {0, 1}

EmbeddingSummaries == {"", "s"}

\* `if incidentID == "" || summary == ""` rejects the call
RequiredFields_IdOnly(incidentID, summary) == incidentID # 0

RequiredFields(incidentID, summary) == incidentID # 0 /\ summary # ""

\* EmbeddingService.CreateEmbedding(incidentID, summary), one call it makes
\* per step: validation and EmbedText, then InsertEmbedding.  `created`
\* keeps the arguments and the (id, model, err) returned.
CreateEmbedding(OK) ==
    \E ok \in OK :
        /\ CASE created.pc # "insert" ->
                  \E incidentID \in EmbeddingIncidentIDs, summary \in EmbeddingSummaries :
                      LET call == [NoCreated EXCEPT !.incidentID = incidentID,
                                                    !.summary = summary,
                                                    !.calls0 = embedCalls,
                                                    !.rows0 = Len(embeddings)]
                      IN
                      /\ calls + ops < MaxRequests
                      /\ ops' = ops + 1
                      /\ IF ~RequiredFields(incidentID, summary)
                         THEN /\ created' = [call EXCEPT !.pc = "done", !.err = TRUE]
                              /\ UNCHANGED embedCalls
                         ELSE /\ embedCalls' = embedCalls + 1
                              /\ created' =
                                     IF ok THEN [call EXCEPT !.pc = "insert"]
                                     ELSE [call EXCEPT !.pc = "done", !.err = TRUE,
                                                       !.model = EmbeddingModel]
                      /\ UNCHANGED embeddings
             [] created.pc = "insert" ->
                  /\ embeddings' = IF ok
                                   THEN InsertEmbedding(created.incidentID, created.summary)
                                   ELSE embeddings
                  /\ created' = [created EXCEPT
                                    !.pc = "done", !.err = ~ok,
                                    !.id = IF ok THEN Len(embeddings) + 1 ELSE 0,
                                    !.model = EmbeddingModel]
                  /\ UNCHANGED <<embedCalls, ops>>
        /\ UNCHANGED <<incidents, alerts, transitions, threadMap, posts, tasks,
                       clearances, now, flappingConfig, authVars, handlers, calls, last,
                       summaryTasks, analyses, agentVars>>

\* Postgres.HideIncident / UnhideIncident: UPDATE incidents SET is_enabled
\* WHERE incident_id = id (an error when no row was affected)
SetIncidentEnabled(id, enabled) ==
    IF id \in 1 .. Len(incidents)
    THEN [incidents EXCEPT ![id] = [@ EXCEPT !.is_enabled = enabled]]
    ELSE incidents

\* bodies of PUT /incidents/:id: title, severity, analysis_summary and
\* analysis_detail (model.UpdateIncidentRequest has no other field)
UpdateIncidentRequests ==
    { [title |-> "edited", severity |-> sev, summary |-> "s", detail |-> "d"] :
          sev \in {"warning", "critical"} }

\* Postgres.UpdateIncident: UPDATE incidents SET title, severity,
\* analysis_summary, analysis_detail WHERE incident_id = id
UpdateIncidentFields_Reopen(id, req) ==
    IF id \in 1 .. Len(incidents)
    THEN [incidents EXCEPT ![id] = [@ EXCEPT !.title = req.title,
                                             !.severity = req.severity,
                                             !.status = "firing"]]
    ELSE incidents

UpdateIncidentFields(id, req) ==
    IF id \in 1 .. Len(incidents)
    THEN [incidents EXCEPT ![id] = [@ EXCEPT !.title = req.title,
                                             !.severity = req.severity]]
    ELSE incidents

\* PUT /incidents/:id, RcaService.UpdateIncident
UpdateIncident ==
    /\ calls + ops < MaxRequests
    /\ ops' = ops + 1
    /\ \E id \in (1 .. Len(incidents)) \cup {DanglingID}, req \in UpdateIncidentRequests :
         /\ incidents' = UpdateIncidentFields(id, req)
         /\ analyses' = UpdateIncidentAnalysis(id, req)
    /\ UNCHANGED <<alerts, transitions, threadMap, posts, tasks, clearances,
                   now, flappingConfig, authVars, summaryTasks, embeddings, embedCalls,
                   created, agentVars, handlers, calls, last>>

\* PATCH /incidents/:id (hide), RcaService.HideIncident
HideIncident ==
    /\ calls + ops < MaxRequests
    /\ ops' = ops + 1
    /\ \E id \in (1 .. Len(incidents)) \cup {DanglingID} :
         incidents' = SetIncidentEnabled(id, FALSE)
    /\ UNCHANGED <<alerts, transitions, threadMap, posts, tasks, clearances,
                   now, flappingConfig, authVars, rcaVars, agentVars, handlers, calls, last>>

\* PATCH /incidents/:id/unhide, RcaService.UnhideIncident
UnhideIncident ==
    /\ calls + ops < MaxRequests
    /\ ops' = ops + 1
    /\ \E id \in (1 .. Len(incidents)) \cup {DanglingID} :
         incidents' = SetIncidentEnabled(id, TRUE)
    /\ UNCHANGED <<alerts, transitions, threadMap, posts, tasks, clearances,
                   now, flappingConfig, authVars, rcaVars, agentVars, handlers, calls, last>>

\* PUT /alerts/:id/incident, Postgres.UpdateAlertIncidentID: the id of the
\* request is stored as it is
UpdateAlertIncident ==
    /\ calls + ops < MaxRequests
    /\ ops' = ops + 1
    /\ \E f \in Fingerprints, i \in (1 .. Len(incidents)) \cup {DanglingID} :
         alerts' = IF HasRow(f)
                   THEN [alerts EXCEPT ![f] = [@ EXCEPT !.incident_id = i]]
                   ELSE alerts
    /\ UNCHANGED <<incidents, transitions, threadMap, posts, tasks, clearances,
                   now, flappingConfig, authVars, rcaVars, agentVars, handlers, calls, last>>

\* ------------------------------------------------------------ specifications
\* Two webhook handlers running concurrently, each serving single-alert
\* requests; repository calls succeed.
Next == \E h \in Handlers :
            ProcessWebhook(h, {TRUE}, {TRUE}, BOOLEAN, AlertInputs, Cardinality(Handlers), {1})

Spec == Init /\ [][Next]_vars

\* One handler: webhook requests are processed one after the other.
NextSeq == ProcessWebhook("h1", {TRUE}, {TRUE}, BOOLEAN, AlertInputs, MaxCalls, {0, 1})

SpecSeq == Init /\ [][NextSeq]_vars

\* One handler serving single-alert webhooks, with an operator using the
\* incident API in between; repository calls succeed and Slack accepts
\* every post.
\* webhooks about alert episodes that all started at instant 0
EpisodeInputs == { a \in AlertInputs : a.startsAt = 0 }

NextOps ==
    \/ ProcessWebhook("h1", {TRUE}, {TRUE}, {TRUE}, EpisodeInputs, MaxRequests - ops, {0, 1})
    \/ CreateMockIncident
    \/ ResolveIncident
    \/ UpdateAlertIncident

SpecOps == Init /\ [][NextOps]_vars

\* One webhook request of several alerts during which incident
\* correlation, the alert upsert and the resolved_at update may fail.
NextFaults == ProcessWebhook("h1", BOOLEAN, {TRUE}, BOOLEAN, EpisodeInputs, 1, 0 .. MaxBatch)

SpecFaults == Init /\ [][NextFaults]_vars

\* Scenario S3: one fingerprint alternates firing / resolved, one webhook per
\* minute, delivered in order and one at a time (the k-th webhook at minute
\* k - 1).
FlapCalls == 6

FlapInputs ==
    IF calls % 2 = 1
    THEN { [fingerprint |-> "a", status |-> "firing", severity |-> SeverityOf["a"],
            startsAt |-> calls - 1, endsAt |-> Null] }
    ELSE { [fingerprint |-> "a", status |-> "resolved", severity |-> SeverityOf["a"],
            startsAt |-> calls - 2, endsAt |-> calls - 1] }

NextFlap == ProcessWebhook("h1", {TRUE}, {TRUE}, BOOLEAN, FlapInputs, FlapCalls, {1})

SpecFlap == Init /\ [][NextFlap]_vars

\* The process is restarted: the in-memory thread map starts empty
\* (NewSlackClient), requests in flight and sleeping goroutines are gone; the
\* database keeps its rows.
Restart ==
    /\ calls + ops < MaxRequests
    /\ ops' = ops + 1
    /\ threadMap' = [f \in Fingerprints |-> 0]
    /\ handlers' = [h \in Handlers |-> IdleHandler]
    /\ clearances' = {}
    /\ UNCHANGED <<incidents, alerts, transitions, posts, tasks, now,
                   flappingConfig, authVars, rcaVars, agentVars, calls, last>>

\* One handler serving single-alert webhooks, with process restarts in
\* between.
NextRestart ==
    \/ ProcessWebhook("h1", {TRUE}, {TRUE}, BOOLEAN, EpisodeInputs, MaxRequests - ops, {0, 1})
    \/ Restart

SpecRestart == Init /\ [][NextRestart]_vars

\* webhooks about one episode of one fingerprint
OneAlertInputs == { a \in EpisodeInputs : a.fingerprint = "a" }

\* One handler serving single-alert webhooks about one fingerprint, under
\* either cycle threshold; the alert upsert may fail, and the clearance
\* goroutines run beside the handler.
InitTuned ==
    \E n \in CycleThresholds :
        InitWith([DefaultFlappingConfig EXCEPT !.CycleThreshold = n])

TunedHandler(h, maxCalls, Chat) ==
    \/ StartWebhook(h, maxCalls, {1})
    \/ LoopNext(h, OneAlertInputs)
    \/ GetIncident(h, {TRUE})
    \/ UpdateSeverity(h, {TRUE})
    \/ CreateIncidentStep(h, {TRUE})
    \/ SaveAlertStep(h, BOOLEAN)
    \/ DetectFlapping(h, {TRUE})
    \/ DupGuard(h, {TRUE})
    \/ UpdateResolved(h, {TRUE})
    \/ RestoreThreadTS(h, {TRUE})
    \/ SendToSlack(h, Chat)
    \/ ThreadGet(h)
    \/ ThreadPut(h, {TRUE})
    \/ RequestAnalysis(h, {TRUE})
    \/ Return(h)

TunedWebhook(h) == TunedHandler(h, MaxRequests, BOOLEAN)

\* The same handler over a longer run of webhooks about one fingerprint;
\* Slack accepts every post and only the alert upsert may fail.
StoredCalls == 4

NextStored == TunedHandler("h1", StoredCalls, {TRUE})

SpecStored == InitTuned /\ [][NextStored]_vars

NextTuned ==
    \/ TunedWebhook("h1")
    \/ ClearanceCheck({TRUE}, BOOLEAN)

SpecTuned == InitTuned /\ [][NextTuned]_vars

\* One handler serving single-alert webhooks while operators hide and unhide
\* incidents and create mock incidents.
NextHide ==
    \/ ProcessWebhook("h1", {TRUE}, {TRUE}, {TRUE}, EpisodeInputs, MaxRequests - ops, {1})
    \/ HideIncident
    \/ UnhideIncident
    \/ CreateMockIncident

SpecHide == Init /\ [][NextHide]_vars

\* One handler serving single-alert webhooks about one fingerprint while the
\* analysis goroutines it launched run; every call a goroutine makes may
\* fail, and so may the handler's chat post.
NextAnalysis ==
    \/ ProcessWebhook("h1", {TRUE}, {TRUE}, BOOLEAN, OneAlertInputs, MaxCalls, {1})
    \/ AgentRequestAnalysis(BOOLEAN, BOOLEAN)

SpecAnalysis == Init /\ [][NextAnalysis]_vars

\* the goroutines are scheduled: each step that can be taken is taken
SpecAnalysisFair == SpecAnalysis /\ WF_vars(AgentRequestAnalysis(BOOLEAN, BOOLEAN))

\* Operators create and resolve incidents while the summary goroutines run;
\* every call a goroutine makes may fail.
NextSummary ==
    \/ CreateMockIncident
    \/ ResolveIncident
    \/ requestIncidentSummary(BOOLEAN)

SpecSummary == Init /\ [][NextSummary]_vars

\* the goroutines are scheduled: each step that can be taken is taken
SpecSummaryFair == SpecSummary /\ WF_vars(requestIncidentSummary(BOOLEAN))

\* One handler serving single-alert webhooks about one fingerprint while an
\* operator uses every request of the incident API that writes the
\* incidents table; repository calls succeed and Slack accepts every post.
NextLifecycle ==
    \/ ProcessWebhook("h1", {TRUE}, {TRUE}, {TRUE}, OneAlertInputs, MaxRequests - ops, {1})
    \/ CreateMockIncident
    \/ ResolveIncident
    \/ UpdateIncident
    \/ HideIncident
    \/ UnhideIncident

SpecLifecycle == Init /\ [][NextLifecycle]_vars

\* Embeddings are created directly while the summary goroutines insert
\* theirs; the embedding client and the repository may fail.
NextEmbedding ==
    \/ CreateEmbedding(BOOLEAN)
    \/ NextSummary

SpecEmbedding == Init /\ [][NextEmbedding]_vars

\* ---------------------------------------------------------------------
\* Refresh tokens (service/auth.go, db/auth.go)
\* ---------------------------------------------------------------------

\* the one account the tokens belong to
AuthUserID == 1

\* refresh tokens a client can present: 0 is the empty string, the others
\* are the values newRefreshToken has handed out or will hand out (a value
\* no row holds yet is an unknown token)
RefreshInputs == 0 .. MaxTokens

\* hashRefreshToken: sha256 of the token, base64-encoded
hashRefreshToken(token) == <<"sha256", token>>

\* newRefreshToken: 32 random bytes; the k-th token drawn is k, so no two
\* draws collide
newRefreshToken == Len(refreshTokens) + 1

\* a refresh_tokens row; rotated_from is an observation (not a column):
\* the id of the row whose exchange inserted this one, 0 for a login
RefreshRow(userID, tokenHash, from) ==
    [user_id |-> userID, token_hash |-> tokenHash, revoked |-> FALSE,
     rotated_from |-> from]

\* InsertRefreshToken: INSERT INTO refresh_tokens
InsertRefreshToken(userID, tokenHash) ==
    Append(refreshTokens, RefreshRow(userID, tokenHash, 0))

\* GetRefreshTokenByHash: id of the row with this token_hash, 0 for
\* pgx.ErrNoRows (token_hash is UNIQUE)
GetRefreshTokenByHash(tokenHash) ==
    LET ids == { i \in 1 .. Len(refreshTokens) :
                    refreshTokens[i].token_hash = tokenHash }
    IN IF ids = {} THEN 0 ELSE CHOOSE i \in ids : TRUE

\* RotateRefreshToken: one transaction: UPDATE ... SET revoked_at = NOW()
\* WHERE id = $1 AND revoked_at IS NULL (the rows affected are not looked
\* at), then INSERT of the new row, then Commit
RotateRefreshToken(oldTokenID, userID, newHash) ==
    Append([refreshTokens EXCEPT ![oldTokenID].revoked = TRUE],
           RefreshRow(userID, newHash, oldTokenID))

\* everything the auth endpoints leave alone
AuthFrame ==
    UNCHANGED <<incidents, alerts, transitions, threadMap, posts, tasks,
                clearances, now, flappingConfig, rcaVars, agentVars,
                handlers, calls, ops, last>>

\* AuthService.Login -> issueTokens: generateAccessToken, newRefreshToken,
\* InsertRefreshToken; any failure leaves the table as it was
Login(OK) ==
    /\ Len(refreshTokens) < MaxTokens
    /\ \E ok \in OK :
          refreshTokens' =
              IF ok THEN InsertRefreshToken(AuthUserID,
                                            hashRefreshToken(newRefreshToken))
              ELSE refreshTokens
    /\ UNCHANGED refreshCalls
    /\ AuthFrame

\* a Refresh call ends with this result
EndRefresh(c, result, issued) ==
    refreshCalls' = [refreshCalls EXCEPT ![c].pc = "done",
                                         ![c].result = result,
                                         ![c].issued = issued]

\* AuthService.Refresh, one repository call per step.
\*   idle/done -> get : the request arrives; an empty token is refused
\*   get    : GetRefreshTokenByHash, then the revoked / expired test
\*   user   : GetUserByID
\*   rotate : newRefreshToken, RotateRefreshToken
\*   sign   : generateAccessToken, return the tokens
Refresh(c, OK, Expired) ==
    LET r == refreshCalls[c] IN
    /\ AuthFrame
    /\ \/ /\ r.pc \in {"idle", "done"}
          /\ Len(refreshTokens) < MaxTokens
          /\ \E token \in RefreshInputs :
                /\ refreshCalls' =
                      [refreshCalls EXCEPT ![c] =
                          IF token = 0
                          THEN [IdleRefresh EXCEPT !.pc = "done",
                                                   !.result = "unauthorized"]
                          ELSE [IdleRefresh EXCEPT !.pc = "get",
                                                   !.token = token]]
                /\ UNCHANGED refreshTokens
       \/ /\ r.pc = "get"
          /\ \E ok \in OK, expired \in Expired :
                LET id == GetRefreshTokenByHash(hashRefreshToken(r.token)) IN
                /\ IF ~ok THEN EndRefresh(c, "error", 0)
                   ELSE IF id = 0 THEN EndRefresh(c, "unauthorized", 0)
                   ELSE IF refreshTokens[id].revoked \/ expired
                        THEN EndRefresh(c, "unauthorized", 0)
                   ELSE refreshCalls' = [refreshCalls EXCEPT ![c].pc = "user",
                                                             ![c].record = id]
                /\ UNCHANGED refreshTokens
       \/ /\ r.pc = "user"
          /\ \E ok \in OK :
                IF ok THEN refreshCalls' = [refreshCalls EXCEPT ![c].pc = "rotate"]
                ELSE EndRefresh(c, "error", 0)
          /\ UNCHANGED refreshTokens
       \/ /\ r.pc = "rotate"
          /\ Len(refreshTokens) < MaxTokens
          /\ \E ok \in OK :
                IF ok
                THEN /\ refreshTokens' =
                          RotateRefreshToken(r.record,
                              refreshTokens[r.record].user_id,
                              hashRefreshToken(newRefreshToken))
                     /\ refreshCalls' = [refreshCalls EXCEPT
                                            ![c].pc = "sign",
                                            ![c].issued = newRefreshToken]
                ELSE /\ EndRefresh(c, "error", 0)
                     /\ UNCHANGED refreshTokens
       \/ /\ r.pc = "sign"
          /\ \E ok \in OK :
                IF ok THEN EndRefresh(c, "ok", r.issued)
                ELSE EndRefresh(c, "error", 0)
          /\ UNCHANGED refreshTokens

\* logins and two concurrent Refresh callers on one refresh_tokens table
NextAuth ==
    \/ Login(BOOLEAN)
    \/ \E c \in AuthCallers : Refresh(c, BOOLEAN, BOOLEAN)

SpecAuth == Init /\ [][NextAuth]_vars

\* -------------------------------------------------------------------- claims
\* the handler has finished (or filtered out) the alert held in its locals
Finished(h) == Local(h).pc \in {"loop", "done"} /\ Local(h).taken > 0

Rank(severity) ==
    CASE severity = "TBD" -> 0 [] severity = "info" -> 1
      [] severity = "warning" -> 2 [] severity = "critical" -> 3 [] OTHER -> -1

\* C1: under any interleaving of concurrent process_webhook invocations, at
\* most one incident has status=firing and is_enabled=true.
C1_FiringSingleton == Cardinality(FiringIncidents) <= 1

\* the call that just ended delivered, alone, the resolved alert that the call
\* before it had delivered alone
C2_SameWebhookTwice ==
    /\ Local("h1").pc = "done"
    /\ Local("h1").n = 1 /\ Local("h1").taken = 1
    /\ last.n = 1 /\ last.alert = Local("h1").alert
    /\ Local("h1").alert.status = "resolved"

C3_FlappingTrip ==
    (Local("h1").pc = "done" /\ calls = 6) =>
        /\ alerts["a"].is_flapping
        /\ Local("h1").flags.flapPost
        /\ ~Local("h1").flags.launched

\* C4: an alert whose severity is neither warning nor critical has no
\* effect: no alert row, no transition row, no incident created or changed,
\* no post, no analysis, no thread entry, neither counter moved.
C4_SeverityFilter ==
    /\ \A f \in Fingerprints :
         SeverityOf[f] \notin {"warning", "critical"} =>
            /\ ~HasRow(f)
            /\ threadMap[f] = 0
            /\ \A k \in 1 .. Len(transitions) : transitions[k].alert_id # f
    /\ \A h \in {"h1"} :
         (Finished(h) /\ Local(h).alert.severity \notin {"warning", "critical"}) =>
            /\ Snapshot = Local(h).pre
            /\ Local(h).sent = Local(h).sent0
            /\ Local(h).failed = Local(h).failed0
            /\ Local(h).flags = NoFlags

C4_Witness ==
    /\ Finished("h1")
    /\ Local("h1").alert.severity = "info"
    /\ Len(incidents) > 0
    /\ posts > 0

\* C5: processing an alert whose incoming status differs from the status
\* stored before the call appends exactly one transition row (alert_id,
\* previous status, incoming status, t); otherwise it appends none.
C5_TransitionLogged ==
    LET l == Local("h1")
        f == l.alert.fingerprint
        t == IF l.alert.status = "resolved" THEN l.alert.endsAt ELSE l.alert.startsAt
    IN (Finished("h1") /\ shouldProcess(l.alert) /\ l.pre.alerts[f].exists) =>
          IF l.pre.alerts[f].status # l.alert.status
          THEN transitions = Append(l.pre.transitions,
                   [alert_id |-> f, from_status |-> l.pre.alerts[f].status,
                    to_status |-> l.alert.status, transitioned_at |-> t])
          ELSE transitions = l.pre.transitions

\* C6: an alert of severity warning or critical correlated to a firing
\* incident whose stored severity is "TBD" replaces that severity by its own.
C6_TbdReplaced ==
    LET l == Local("h1") IN
    (l.pc = "save" /\ l.found # 0 /\ l.found <= Len(l.pre.incidents)
        /\ l.pre.incidents[l.found].severity = "TBD") =>
            incidents[l.found].severity = l.alert.severity

\* C7: no step of process_webhook lowers an incident's severity in the order
\* TBD < info < warning < critical; a critical alert correlated to an
\* incident at warning makes it critical, and the alert is stored with the
\* incident_id it was correlated to.
C7_SeverityMonotone ==
    [][ /\ (handlers' # handlers) =>
              \A i \in 1 .. Len(incidents) :
                 Rank(incidents'[i].severity) >= Rank(incidents[i].severity)
        /\ \A h \in Handlers :
              (Local(h).pc = "sev" /\ handlers'[h].pc = "save"
                 /\ incidents[Local(h).found].severity = "warning"
                 /\ Local(h).alert.severity = "critical") =>
                    incidents'[Local(h).found].severity = "critical"
        /\ \A h \in Handlers :
              (Local(h).pc = "save" /\ handlers'[h].pc = "status"
                 /\ Local(h).found # 0) =>
                    alerts'[Local(h).alert.fingerprint].incident_id = Local(h).found
      ]_vars

C7_Witness ==
    LET l == Local("h1") IN
    /\ l.pc = "status"
    /\ l.found # 0 /\ l.found <= Len(l.pre.incidents)
    /\ l.pre.incidents[l.found].severity = "warning"
    /\ l.alert.severity = "critical"
    /\ incidents[l.found].severity = "critical"
    /\ alerts[l.alert.fingerprint].incident_id = l.found

\* C8: once the webhook calls have completed, every stored alert with
\* status=resolved has a non-null resolved_at with resolved_at >= fired_at
\* (all resolved webhooks carry endsAt >= startsAt).
C8_ResolvedAtAfterFiredAt ==
    (\A h \in Handlers : Local(h).pc = "idle") =>
        \A f \in Fingerprints :
            (HasRow(f) /\ alerts[f].status = "resolved") =>
                /\ alerts[f].resolved_at # Null
                /\ alerts[f].resolved_at >= alerts[f].fired_at

\* C9: no step of process_webhook changes an incident_id that is already
\* stored (non-null) for an alert.
C9_IncidentIdSetOnce ==
    [][ (handlers' # handlers) =>
            \A f \in Fingerprints :
                alerts[f].incident_id # 0 =>
                    alerts'[f].incident_id = alerts[f].incident_id ]_vars

\* correlation, the upsert or the resolved_at update failed for the alert
\* the handler has finished
C10_Failed(h) ==
    /\ Finished(h)
    /\ shouldProcess(Local(h).alert)
    /\ Local(h).flags.corrFail \/ Local(h).flags.saveFail \/ Local(h).flags.resFail

\* the chat post was attempted and moved exactly one counter, by its outcome
C10_CountedByChat(h) ==
    LET l == Local(h) IN
    /\ l.flags.chatTried
    /\ l.flags.chatOk => (l.sent = l.sent0 + 1 /\ l.failed = l.failed0)
    /\ ~l.flags.chatOk => (l.sent = l.sent0 /\ l.failed = l.failed0 + 1)

\* C10 (as stated): when correlation, the upsert or the resolved_at update
\* failed for an alert, the chat post is still attempted and the alert is
\* counted by the chat outcome alone.
C10_PostAlwaysAttempted ==
    C10_Failed("h1") => C10_CountedByChat("h1")

\* C10 (amended): such a failure never ends the processing of the alert or
\* of the batch: unless the resolved-duplicate guard skips the alert or the
\* flapping classification suppresses it, the chat post is attempted and the
\* alert is counted by the chat outcome alone, and the call returns only
\* after every alert of the batch was taken.
C10_FailureIndependent ==
    /\ (C10_Failed("h1") /\ ~Local("h1").flags.dup /\ ~Local("h1").flags.suppressed)
          => C10_CountedByChat("h1")
    /\ Local("h1").pc = "done" => Local("h1").taken = Local("h1").n

C10_Witness ==
    /\ C10_Failed("h1")
    /\ Local("h1").pc = "loop" /\ Local("h1").remaining > 0
    /\ Local("h1").flags.saveFail
    /\ Local("h1").flags.chatOk

\* the thread reference step 5 leaves in memory for alert a, given the state
\* before the alert was taken: a resolved alert's persisted reference is
\* copied back into the map before the post
RestoredThread(l) ==
    LET f == l.alert.fingerprint IN
    IF l.alert.status = "resolved" /\ l.pre.alerts[f].thread_ts # 0
    THEN l.pre.alerts[f].thread_ts
    ELSE l.pre.threadMap[f]

\* C11: when the chat post for an alert fails, the alert adds one to failed
\* and nothing to sent, its row stays persisted, the post leaves no thread
\* reference in memory or in the repository, and no analysis is launched.
C11_ChatFailure ==
    LET l == Local("h1")
        f == l.alert.fingerprint
    IN (Finished("h1") /\ l.flags.chatTried /\ ~l.flags.chatOk) =>
          /\ l.failed = l.failed0 + 1 /\ l.sent = l.sent0
          /\ HasRow(f) /\ alerts[f].status = l.alert.status
          /\ alerts[f].thread_ts = l.pre.alerts[f].thread_ts
          /\ threadMap[f] = RestoredThread(l)
          /\ posts = l.pre.posts
          /\ tasks = l.pre.tasks /\ ~l.flags.launched

C11_Witness ==
    /\ Finished("h1")
    /\ Local("h1").flags.chatTried /\ ~Local("h1").flags.chatOk
    /\ Local("h1").alert.status = "firing"
    /\ ~Local("h1").pre.alerts[Local("h1").alert.fingerprint].exists
    /\ Local("h1").failed = 1

\* C15: a firing webhook for an alert whose stored status is already firing
\* creates no new thread root: the persisted thread_ts and the in-memory
\* entry of the fingerprint are after the call what they were before it.
C15_RefireKeepsThread ==
    LET l == Local("h1")
        f == l.alert.fingerprint
    IN (Finished("h1") /\ l.alert.status = "firing"
          /\ l.pre.alerts[f].exists /\ l.pre.alerts[f].status = "firing") =>
             /\ alerts[f].thread_ts = l.pre.alerts[f].thread_ts
             /\ threadMap[f] = l.pre.threadMap[f]

\* C13: after a firing webhook whose chat post was accepted, the in-memory
\* thread entry and the persisted thread_ts both equal the ts of that post;
\* with an empty in-memory map (after a restart) the next resolved post goes
\* to the persisted thread_ts.
C13_ThreadRoundTrip ==
    LET l == Local("h1")
        f == l.alert.fingerprint
    IN /\ (Finished("h1") /\ l.alert.status = "firing" /\ l.flags.chatOk
             /\ ~l.flags.flapPost) =>
               /\ l.flags.post.ts # 0
               /\ GetThreadTS(f) = l.flags.post.ts
               /\ GetAlertThreadTS(f) = l.flags.post.ts
       /\ (Finished("h1") /\ l.alert.status = "resolved" /\ l.flags.chatOk
             /\ ~l.flags.flapPost /\ l.pre.threadMap[f] = 0) =>
               l.flags.post.thread = l.pre.alerts[f].thread_ts

C13_Witness ==
    LET l == Local("h1")
        f == l.alert.fingerprint
    IN /\ Finished("h1") /\ l.alert.status = "resolved" /\ l.flags.chatOk
       /\ ops > 0
       /\ l.pre.threadMap[f] = 0
       /\ l.pre.alerts[f].status = "firing"
       /\ l.flags.post.thread # 0
       /\ l.flags.post.thread = alerts[f].thread_ts

\* C14: a resolved webhook posts its card as a reply to the alert's stored
\* thread reference (the persisted one, else the one in memory), leaves the
\* persisted thread_ts unchanged and does not keep the ts of the resolved
\* post as a thread root.
C14_ResolvedReply ==
    LET l == Local("h1")
        f == l.alert.fingerprint
    IN (Finished("h1") /\ l.alert.status = "resolved" /\ l.flags.chatOk
          /\ ~l.flags.flapPost) =>
             /\ l.flags.post.thread = RestoredThread(l)
             /\ alerts[f].thread_ts = l.pre.alerts[f].thread_ts
             /\ threadMap[f] # l.flags.post.ts
             /\ alerts[f].thread_ts # l.flags.post.ts

C14_Witness ==
    LET l == Local("h1")
        f == l.alert.fingerprint
    IN /\ Finished("h1") /\ l.alert.status = "resolved" /\ l.flags.chatOk
       /\ l.pre.threadMap[f] # 0
       /\ l.flags.post.thread = l.pre.threadMap[f]
       /\ alerts[f].thread_ts = l.flags.post.thread
       /\ threadMap[f] = 0

\* what step 6 and step 8 did for the alert just processed, given what the
\* flapping detector returned for it
C12_FlappingHandling(l) ==
    /\ (l.isFlapping /\ ~l.isNewFlapping) =>
           /\ ~l.flags.chatTried /\ l.flags.post = NoPost
           /\ ~l.flags.launched
           /\ l.sent = l.sent0 + 1 /\ l.failed = l.failed0
    /\ l.isNewFlapping =>
           /\ l.flags.chatTried /\ l.flags.flapPost
           /\ l.flags.chatOk => l.flags.post.kind = "flapping"
           /\ ~l.flags.launched
           /\ l.sent + l.failed = l.sent0 + l.failed0 + 1

C12_WitnessNew ==
    /\ Finished("h1") /\ Local("h1").isNewFlapping
    /\ Local("h1").flags.chatOk /\ Local("h1").flags.post.kind = "flapping"

\* a duplicate resolved delivery of a flapping alert was dropped
C12_WitnessDup ==
    /\ Finished("h1") /\ Local("h1").flags.dup /\ Local("h1").isFlapping

\* C16: a clearance task scheduled for resolved time R sets is_flapping to
\* false only when, as it runs, the alert is still resolved, its stored
\* resolved_at has not moved later than R and the transition log holds no
\* entry of the alert after R.
C16_ClearsOnlyWhenQuiet ==
    [][\A f \in Fingerprints :
          (alerts[f].is_flapping /\ ~alerts'[f].is_flapping) =>
              \E c \in clearances :
                  /\ c.fingerprint = f /\ c.pc = "clear"
                  /\ alerts[f].status = "resolved"
                  /\ alerts[f].resolved_at <= c.resolvedAt
                  /\ ~HasTransitionsSince(f, c.resolvedAt)]_vars

\* C17: a flapping flag does not stay set on a quiet alert: once the handler
\* has answered the most recent resolved webhook of an alert and every
\* clearance task scheduled so far has run to its end (no webhook arriving
\* meanwhile), is_flapping is false.
C17_QuietAlertCleared ==
    LET l == Local("h1") IN
    (Finished("h1") /\ l.pc = "done" /\ l.alert.status = "resolved"
        /\ clearances = {})
    => ~alerts[l.alert.fingerprint].is_flapping

\* C18: the webhook completing the N-th cycle of the open window (N=3: the
\* third resolved webhook of three firing/resolved cycles delivered in order)
\* is the one for which the detector returns is_new_flapping=true.
C18_NthCycleAnnounced ==
    (Finished("h1") /\ Local("h1").pc = "done"
        /\ calls = 2 * flappingConfig.CycleThreshold
        /\ Local("h1").alert.status = "resolved")
    => (Local("h1").isFlapping /\ Local("h1").isNewFlapping)

\* summary goroutines launched for incident id
SummaryTasksOf(tasklist, id) ==
    { k \in 1 .. Len(tasklist) : tasklist[k].incidentID = id }

\* C19: resolve changes an incident only when its status is firing, and then
\* launches exactly one summary task for it; a resolve of a resolved or
\* unknown incident changes nothing and launches nothing; a resolved
\* incident keeps its status, resolved_at and resolved_by, and no incident
\* ever has more than one summary task.
C19_ResolveOnce ==
    [][/\ \A i \in 1 .. Len(incidents) :
            /\ (incidents'[i].status = "resolved" /\ incidents[i].status # "resolved")
                  => /\ incidents[i].status = "firing"
                     /\ summaryTasks' = Append(summaryTasks, NewSummaryTask(i))
            /\ incidents[i].status = "resolved"
                  => /\ incidents'[i].status = "resolved"
                     /\ incidents'[i].resolved_at = incidents[i].resolved_at
                     /\ incidents'[i].resolved_by = incidents[i].resolved_by
       /\ Len(summaryTasks') # Len(summaryTasks)
            => \E i \in 1 .. Len(incidents) :
                   incidents[i].status = "firing" /\ incidents'[i].status = "resolved"
       /\ (ops' # ops /\ incidents' = incidents /\ alerts' = alerts)
            => UNCHANGED <<incidents, alerts, transitions, threadMap, posts,
                           tasks, clearances, now, flappingConfig, authVars, handlers,
                           calls, last, rcaVars, agentVars>>
       /\ \A i \in 1 .. Len(incidents') :
            Cardinality(SummaryTasksOf(summaryTasks', i)) <= 1
            /\ (incidents'[i].status = "resolved"
                   <=> SummaryTasksOf(summaryTasks', i) # {})
      ]_vars

\* an incident was resolved, its one task launched, and a further operator
\* request (a second resolve among them) found nothing to change
C19_Witness ==
    /\ Len(incidents) = 1 /\ incidents[1].status = "resolved"
    /\ Len(summaryTasks) = 1 /\ summaryTasks[1].incidentID = 1
    /\ calls = 0 /\ ops > 2

\* embeddings rows keyed by incident id
EmbeddingsOf(rows, id) ==
    { j \in 1 .. Len(rows) : rows[j].incident_id = id }

\* the analysis the k-th task received, as the incidents row holds it
PersistedAnalysis(k) ==
    [incident_id |-> summaryTasks[k].incidentID,
     title |-> summaryTasks[k].resp.title,
     summary |-> summaryTasks[k].resp.summary,
     detail |-> summaryTasks[k].resp.detail]

\* no embeddings row unless the analysis was persisted and its summary is
\* non-empty; never more than one row; the row carries that summary
C20_RowsOfTask(k) ==
    LET task == summaryTasks[k]
        rows == EmbeddingsOf(embeddings, task.incidentID)
    IN
    /\ Cardinality(rows) <= 1
    /\ task.saved => PersistedAnalysis(k) \in analyses
    /\ rows # {} =>
          /\ task.saved /\ task.resp.summary # ""
          /\ \A j \in rows : embeddings[j].incident_summary = task.resp.summary
    /\ (task.pc = "done" /\ (~task.saved \/ task.resp.summary = "")) => rows = {}

C20_WitnessEmpty ==
    \E k \in 1 .. Len(summaryTasks) :
        /\ summaryTasks[k].pc = "done" /\ summaryTasks[k].saved
        /\ summaryTasks[k].resp.summary = ""
        /\ EmbeddingsOf(embeddings, summaryTasks[k].incidentID) = {}

\* C21: each alert of a batch moves at most one of the two counters, by one;
\* when the call returns, sent + failed is the number of alerts of the batch
\* that passed the severity filter and were not skipped by the
\* resolved-duplicate guard; an alert of another severity moves neither
\* counter; an empty batch returns (0, 0) and has written nothing.
C21_CountersPartition ==
    LET l == Local("h1") IN
    /\ Finished("h1") =>
          /\ <<l.sent - l.sent0, l.failed - l.failed0>>
                \in {<<0, 0>>, <<1, 0>>, <<0, 1>>}
          /\ l.alert.severity \notin {"warning", "critical"}
                => (l.sent = l.sent0 /\ l.failed = l.failed0)
          /\ l.sent + l.failed = l.taken - l.skipped
    /\ l.pc = "done" => l.sent + l.failed = l.n - l.skipped
    /\ (l.pc = "done" /\ l.n = 0) =>
          /\ l.sent = 0 /\ l.failed = 0
          /\ calls = 1 => /\ alerts = EmptyAlerts /\ incidents = <<>>
                          /\ transitions = <<>> /\ posts = 0 /\ tasks = 0
                          /\ threadMap = [f \in Fingerprints |-> 0]

\* a batch of two: one alert counted, the other skipped as a duplicate
C21_Witness ==
    /\ Local("h1").pc = "done" /\ Local("h1").n = 2
    /\ Local("h1").flags.dup /\ Local("h1").skipped = 1
    /\ Local("h1").sent + Local("h1").failed = 1

\* an empty batch was answered
C21_WitnessEmpty ==
    Local("h1").pc = "done" /\ Local("h1").n = 0

\* C22: with hide, unhide and mock creation interleaved with webhook
\* processing, no two distinct incidents are both firing and enabled.
C22_SingletonUnderOperators ==
    \A i, j \in 1 .. Len(incidents) :
        (/\ incidents[i].status = "firing" /\ incidents[i].is_enabled
         /\ incidents[j].status = "firing" /\ incidents[j].is_enabled)
        => i = j

\* C23: every stored alert with a non-null incident_id references an
\* incident row that exists.
C23_IncidentReferenceExists ==
    \A f \in Fingerprints :
        (HasRow(f) /\ alerts[f].incident_id # 0)
        => alerts[f].incident_id \in 1 .. Len(incidents)

\* analysis messages task k has in Slack
RepliesOf(k) == { r \in replies : r.task = k }

\* what the k-th analysis task has done so far
C24_TaskEffects(k) ==
    LET task == analysisTasks[k] IN
    /\ task.threadTS = 0 =>
          /\ ~task.agentOk /\ RepliesOf(k) = {}
          /\ alertAnalyses[task.fingerprint] # k
    /\ Cardinality(RepliesOf(k)) <= 1
    /\ \A r \in RepliesOf(k) : r.thread = task.threadTS /\ task.agentOk
    /\ (task.pc = "done" /\ task.postOk) => RepliesOf(k) # {}
    /\ alertAnalyses[task.fingerprint] = k => (task.agentOk /\ task.storeOk)
    /\ (task.pc \in {"post", "done"} /\ task.storeOk) =>
          \E j \in 1 .. Len(analysisTasks) :
              /\ alertAnalyses[task.fingerprint] = j /\ analysisTasks[j].storeOk
              /\ analysisTasks[j].fingerprint = task.fingerprint

\* C24: an alert the detector did not classify as flapping and whose chat
\* post succeeded gets one analysis task, launched with the thread reference
\* persisted for the alert; the task ends; with an empty reference it does
\* nothing; else the agent's answer is stored on the alert and sent to that
\* thread (each as far as its own call succeeds); no step of a task touches
\* the handler or its (sent, failed).
C24_AnalysisTask ==
    /\ [](LET l == Local("h1") IN
           (Finished("h1") /\ ~l.isFlapping /\ l.flags.chatOk) =>
              /\ l.flags.launched /\ tasks = l.pre.tasks + 1
              /\ Len(analysisTasks) = tasks
              /\ analysisTasks[tasks].fingerprint = l.alert.fingerprint
              /\ analysisTasks[tasks].threadTS
                    = alerts[l.alert.fingerprint].thread_ts)
    /\ [](\A k \in 1 .. Len(analysisTasks) : C24_TaskEffects(k))
    /\ [][\A k \in 1 .. Len(analysisTasks) :
             analysisTasks'[k] # analysisTasks[k] =>
                /\ handlers' = handlers /\ last' = last /\ alerts' = alerts
                /\ (analysisTasks[k].pc = "store" /\ analysisTasks'[k].storeOk)
                      => alertAnalyses'[analysisTasks[k].fingerprint] = k
       ]_vars
    /\ \A n \in 1 .. MaxCalls :
          (Len(analysisTasks) >= n)
             ~> (Len(analysisTasks) >= n /\ analysisTasks[n].pc = "done")

\* a task stored its answer on the alert and posted it to the alert's thread
C24_Witness ==
    \E k \in 1 .. Len(analysisTasks) :
        /\ analysisTasks[k].pc = "done" /\ analysisTasks[k].threadTS # 0
        /\ analysisTasks[k].storeOk /\ analysisTasks[k].postOk
        /\ alertAnalyses[analysisTasks[k].fingerprint] = k
        /\ \E r \in RepliesOf(k) :
              r.thread = alerts[analysisTasks[k].fingerprint].thread_ts

\* a task launched without a thread reference ended having done nothing
C24_WitnessNoThread ==
    \E k \in 1 .. Len(analysisTasks) :
        analysisTasks[k].pc = "done" /\ analysisTasks[k].threadTS = 0

\* C25: every row of the state-transition log has from_status # to_status,
\* whatever the interleaving of the handlers that appended them.
C25_TransitionChangesStatus ==
    \A k \in 1 .. Len(transitions) :
        transitions[k].from_status # transitions[k].to_status

\* a handler whose alert found the other handler's status stored has logged
\* a transition
C25_Witness ==
    \E h \in Handlers :
        /\ Local(h).flags.recorded
        /\ \E k \in 1 .. Len(transitions) :
              /\ transitions[k].alert_id = Local(h).alert.fingerprint
              /\ transitions[k].to_status = Local(h).alert.status

\* C26: an alert with is_flapping = TRUE has a flap_window_start and a
\* flap_cycle_count of at least the configured cycle threshold; the step of
\* a clearance check that clears the alert leaves is_flapping = FALSE,
\* flap_cycle_count = 0 and no flap_window_start.
C26_FlappingColumns ==
    /\ [](\A f \in Fingerprints :
            (HasRow(f) /\ alerts[f].is_flapping) =>
                /\ alerts[f].flap_window_start # Null
                /\ alerts[f].flap_cycle_count >= flappingConfig.CycleThreshold)
    /\ [][\A c \in clearances :
             (c.pc = "clear" /\ c \notin clearances'
                 /\ [c EXCEPT !.pc = "notify"] \in clearances') =>
                /\ ~alerts'[c.fingerprint].is_flapping
                /\ alerts'[c.fingerprint].flap_cycle_count = 0
                /\ alerts'[c.fingerprint].flap_window_start = Null]_vars

\* an alert is flapping
C26_Witness ==
    \E f \in Fingerprints : HasRow(f) /\ alerts[f].is_flapping

\* a clearance check has cleared an alert and is about to announce it
C26_WitnessCleared ==
    \E c \in clearances :
        /\ c.pc = "notify" /\ ~alerts[c.fingerprint].is_flapping
        /\ alerts[c.fingerprint].flap_cycle_count = 0

\* C27: CreateEmbedding with both arguments non-empty, the client and the
\* repository succeeding, inserts exactly one row (the one whose id it
\* returns) and returns a non-zero id and a non-empty model; with an empty
\* argument it returns an error without an EmbedText call or a row; when
\* EmbedText fails it returns an error and inserts no row.
C27_CreateEmbedding ==
    /\ [](created.pc = "done" =>
            /\ ~created.err =>
                  /\ created.incidentID # 0 /\ created.summary # ""
                  /\ created.id # 0 /\ created.model # ""
                  /\ created.id \in 1 .. Len(embeddings)
                  /\ embeddings[created.id]
                        = [incident_id |-> created.incidentID,
                           incident_summary |-> created.summary]
            /\ (created.incidentID = 0 \/ created.summary = "") => created.err)
    /\ [][(created' # created) =>
             /\ (created'.pc = "done"
                   /\ (created'.incidentID = 0 \/ created'.summary = "")) =>
                   (embedCalls' = embedCalls /\ embeddings' = embeddings)
             /\ (created.pc # "insert" /\ created'.pc = "done") =>
                   embeddings' = embeddings
             /\ (created.pc # "insert" /\ created'.pc = "insert") =>
                   (embedCalls' = embedCalls + 1 /\ embeddings' = embeddings)
             /\ created.pc = "insert" =>
                   /\ embedCalls' = embedCalls
                   /\ Len(embeddings') = Len(embeddings) + (IF created'.err THEN 0 ELSE 1)
                   /\ SubSeq(embeddings', 1, Len(embeddings)) = embeddings
       ]_vars

\* a direct call succeeded on a table that already held a row
C27_Witness ==
    /\ created.pc = "done" /\ ~created.err
    /\ created.id > 1 /\ created.model = EmbeddingModel

\* a direct call with an empty summary was rejected
C27_WitnessEmpty ==
    /\ created.pc = "done" /\ created.err
    /\ created.incidentID # 0 /\ created.summary = ""

\* the embedding client failed on a direct call
C27_WitnessClientFailed ==
    /\ created.pc = "done" /\ created.err
    /\ created.incidentID # 0 /\ created.summary # ""
    /\ embedCalls > created.calls0 /\ created.id = 0

\* C28: when both handlers have served the same resolved alert (same
\* fingerprint, same endsAt), at most one of them made a chat post and at
\* most one launched an analysis task.
C28_OneResolvedPost ==
    LET l1 == Local("h1")
        l2 == Local("h2")
    IN (Finished("h1") /\ Finished("h2")
          /\ l1.alert = l2.alert /\ l1.alert.status = "resolved"
          /\ shouldProcess(l1.alert))
       => /\ ~(l1.flags.chatOk /\ l2.flags.chatOk)
          /\ ~(l1.flags.launched /\ l2.flags.launched)

\* C29: a resolved webhook skipped by the duplicate guard leaves the alert's
\* status, resolved_at, incident_id and thread_ts as they were when the
\* handler took the alert.
C29_SkippedDuplicateFrame ==
    LET l == Local("h1")
        f == l.alert.fingerprint
    IN (Finished("h1") /\ l.flags.dup) =>
          /\ alerts[f].status = l.pre.alerts[f].status
          /\ alerts[f].resolved_at = l.pre.alerts[f].resolved_at
          /\ alerts[f].incident_id = l.pre.alerts[f].incident_id
          /\ alerts[f].thread_ts = l.pre.alerts[f].thread_ts

\* C30: once both handlers have finished a firing alert of the same
\* fingerprint with their chat posts accepted, the in-memory thread entry of
\* the fingerprint equals the persisted thread_ts.
C30_ThreadEntryAgrees ==
    LET l1 == Local("h1")
        l2 == Local("h2")
        f == l1.alert.fingerprint
    IN (Finished("h1") /\ Finished("h2")
          /\ l1.alert.fingerprint = l2.alert.fingerprint
          /\ l1.alert.status = "firing" /\ l2.alert.status = "firing"
          /\ l1.flags.chatOk /\ l2.flags.chatOk)
       => GetThreadTS(f) = alerts[f].thread_ts

\* C31: an alert whose stored is_flapping flag was set when the handler took
\* it, and is still set when the handler is done with it, was reported
\* flapping by the detector: no alert card was posted and no analysis task
\* was launched for it.
C31_StoredFlagReported ==
    LET l == Local("h1")
        f == l.alert.fingerprint
    IN (Finished("h1") /\ l.alert.severity \in {"warning", "critical"}
          /\ l.pre.alerts[f].is_flapping /\ alerts[f].is_flapping)
       => /\ l.isFlapping
          /\ ~l.flags.launched
          /\ l.flags.chatOk => l.flags.flapPost

\* C32: the handling of a resolved alert creates no incident and no alert
\* row: both tables hold the rows they held when the handler took the alert.
C32_ResolvedCreatesNothing ==
    LET l == Local("h1")
        f == l.alert.fingerprint
    IN (Finished("h1") /\ l.alert.status = "resolved") =>
          /\ Len(incidents) = Len(l.pre.incidents)
          /\ \A g \in Fingerprints : HasRow(g) => l.pre.alerts[g].exists

\* C33: an incident that is resolved stays resolved; a resolved incident has
\* a resolved_at; a step of the webhook handler changes the status,
\* resolved_at and resolved_by of no incident.
C33_IncidentLifecycle ==
    /\ [][\A i \in 1 .. Len(incidents) :
             incidents[i].status = "resolved" => incidents'[i].status = "resolved"]_vars
    /\ [](\A i \in 1 .. Len(incidents) :
             incidents[i].status = "resolved" => incidents[i].resolved_at # Null)
    /\ [][handlers' # handlers =>
             \A i \in 1 .. Len(incidents) :
                 /\ incidents'[i].status = incidents[i].status
                 /\ incidents'[i].resolved_at = incidents[i].resolved_at
                 /\ incidents'[i].resolved_by = incidents[i].resolved_by]_vars

\* a webhook was served while a resolved incident existed
C33_Witness ==
    LET l == Local("h1") IN
    /\ Finished("h1")
    /\ \E i \in 1 .. Len(l.pre.incidents) :
          l.pre.incidents[i].status = "resolved" /\ incidents[i].status = "resolved"

\* a resolved incident was edited
C33_WitnessEdited ==
    \E i \in 1 .. Len(incidents) :
        incidents[i].status = "resolved" /\ incidents[i].title = "edited"

\* C34: a refresh token is exchanged at most once: of the Refresh calls
\* that presented one token at most one returned new tokens, and no row
\* has two unrevoked successors.
C34_ExchangedOnce ==
    /\ \A c, d \in AuthCallers :
          (/\ refreshCalls[c].result = "ok" /\ refreshCalls[d].result = "ok"
           /\ refreshCalls[c].pc = "done" /\ refreshCalls[d].pc = "done"
           /\ refreshCalls[c].token = refreshCalls[d].token)
          => c = d
    /\ \A k \in 1 .. Len(refreshTokens) :
          Cardinality({ j \in 1 .. Len(refreshTokens) :
                          /\ refreshTokens[j].rotated_from = k
                          /\ ~refreshTokens[j].revoked }) <= 1

====
